---- MODULE Spec2Model ----
(***************************************************************************)
(* Wallet-Service: the wallet router (deposit initialisation, Paystack     *)
(* webhook, transfer) over the SQLModel tables Wallet and Transaction.     *)
(*                                                                         *)
(* The store is the committed content of the two tables.  Every request is *)
(* served by a handler with its own database session; a handler is cut     *)
(* into steps at the statements that read or write the store, and steps of *)
(* different handlers interleave freely.  No statement of the router takes *)
(* a row lock (there is no with_for_update), so a value read in one step   *)
(* may be stale in the next.                                               *)
(*                                                                         *)
(* The table constraints are those declared in app/models.py:              *)
(*   Transaction.id is the primary key, Transaction.reference is unique,   *)
(*   and Transaction has no wallet_id column.                              *)
(* A commit that violates a constraint raises and rolls the whole          *)
(* transaction back.                                                       *)
(*                                                                         *)
(* The caller of a handler is the user that get_principal resolved; every  *)
(* user has the wallet google_callback created with it.                    *)
(***************************************************************************)
EXTENDS Integers, FiniteSets, Sequences, TLC

\* ---------------------------------------------------------------- bounds
MaxWallets == 2
MaxProcs == 2
MaxAmount == 1
MaxRefs == 2
MaxKeys == 6
\* create_key: "if len(active) >= 5"
MaxActiveKeys == 5

Procs == 1..MaxProcs
WalletIds == 1..MaxWallets
\* every user gets one wallet, so there are as many users as wallets
UserIds == 1..MaxWallets
\* DepositReq.amount and TransferReq.amount are plain ints: any sign is accepted
Amounts == (0 - MaxAmount)..MaxAmount
Refs == 1..MaxRefs

VARIABLES
    wallets,   \* table wallet: id -> [user_id, balance, wallet_number]
    txs,       \* table transaction: id (primary key) -> row
    nextRef,   \* source of fresh references (secrets.token_urlsafe)
    pc,        \* per handler: the statement it is about to execute
    req,       \* per handler: the request it serves
    loc,       \* per handler: its local variables (objects loaded in its session)
    resp,      \* per handler: the response it produced
    apikeys    \* table apikey: the rows in the order of their insertion

vars == <<wallets, txs, nextRef, pc, req, loc, resp, apikeys>>

\* ------------------------------------------------------------ data model
TransactionStatus == {"pending", "success", "failed"}
TransactionType == {"deposit", "transfer", "withdrawal"}

\* A row of table transaction (meta and the timestamps play no role here).
Transaction(id, user_id, tx_type, amount, status, reference) ==
    [id |-> id, user_id |-> user_id, tx_type |-> tx_type, amount |-> amount,
     status |-> status, reference |-> reference]

\* A row of table wallet.
Wallet(id, user_id, balance, wallet_number) ==
    [id |-> id, user_id |-> user_id, balance |-> balance, wallet_number |-> wallet_number]

\* What an attribute lookup yields when the model class has no such attribute
\* (Python raises AttributeError).
NoAttr == 0 - 1

\* The plausible change: the attribute exists and holds the wallet id that
\* init_deposit stored in the entry.
TxWalletIdStored(tx) == tx.id

\* tx.wallet_id: the Transaction model declares no such attribute, so the
\* lookup raises AttributeError.
TxWalletId(tx) == NoAttr

\* Primary key on id and unique index on reference: can `rows` (a sequence of
\* new rows, flushed in one transaction) be inserted into `table`?
InsertOk(table, rows) ==
    /\ \A i \in DOMAIN rows : rows[i].id \notin DOMAIN table
    /\ \A i, j \in DOMAIN rows : i # j => rows[i].id # rows[j].id
    /\ \A i \in DOMAIN rows : \A k \in DOMAIN table : table[k].reference # rows[i].reference
    /\ \A i, j \in DOMAIN rows : i # j => rows[i].reference # rows[j].reference

Insert(table, rows) ==
    [k \in DOMAIN table \cup {rows[i].id : i \in DOMAIN rows} |->
        IF k \in DOMAIN table THEN table[k]
        ELSE rows[CHOOSE i \in DOMAIN rows : rows[i].id = k]]

\* ---------------------------------------------------------- signatures
SecretKey == "PAYSTACK_SECRET_KEY"
OtherKey == "other"
NoSignature == [key |-> "", reference |-> 0, status |-> ""]

\* hmac.new(key, body, sha512).hexdigest(): determined by key and body, and
\* (collision resistance) determining them.
Hmac(key, body) == [key |-> key, reference |-> body.reference, status |-> body.status]

DeclaredStatuses == {"success", "failed"}
Bodies == [reference : Refs, status : DeclaredStatuses]

\* The plausible change: the comparison is dropped.
CompareDigestAny(a, b) == TRUE

\* hmac.compare_digest(computed, sig)
CompareDigest(a, b) == a = b

\* The value of the x-paystack-signature header a sender may attach to `body`:
\* none, the right one, one made with another key, one made for another body.
Signatures(body) ==
    {NoSignature, Hmac(SecretKey, body), Hmac(OtherKey, body)}
      \cup {Hmac(SecretKey, b) : b \in {c \in Bodies : c.reference = body.reference}}

\* ------------------------------------------------------- handler state
NoReq == [op |-> "none", user |-> 0, amount |-> 0, wallet_number |-> 0,
          body |-> [reference |-> 0, status |-> ""], sig |-> NoSignature]
NoLoc == [tx |-> 0, tx_status |-> "", sender |-> 0, recipient |-> 0,
          s_balance |-> 0, r_balance |-> 0, ref |-> 0, out |-> <<>>]

Init ==
    /\ wallets = <<>>
    /\ txs = <<>>
    /\ nextRef = 1
    /\ pc = [p \in Procs |-> "idle"]
    /\ req = [p \in Procs |-> NoReq]
    /\ loc = [p \in Procs |-> NoLoc]
    /\ resp = [p \in Procs |-> "none"]
    /\ apikeys = <<>>

\* The handler p ends with response r.
Return(p, r) ==
    /\ pc' = [pc EXCEPT ![p] = "done"]
    /\ resp' = [resp EXCEPT ![p] = r]

\* The users that have a wallet.
Users == {wallets[w].user_id : w \in DOMAIN wallets}

\* google_callback, new user: the user is committed (line 95), then its wallet
\* (line 100), with balance 0 and a wallet number of its own.  The two tables
\* number their rows independently and two callbacks interleave between the
\* two commits, so the wallet committed next may be that of any user still
\* without one: a wallet's id need not be its user's id.
CreateWallet ==
    /\ Cardinality(DOMAIN wallets) < MaxWallets
    /\ \E user \in UserIds \ Users :
        LET id == Cardinality(DOMAIN wallets) + 1
        IN wallets' = [k \in DOMAIN wallets \cup {id} |->
                         IF k = id THEN Wallet(id, user, 0, id) ELSE wallets[k]]
    /\ UNCHANGED <<txs, nextRef, pc, req, loc, resp, apikeys>>

\* select(Wallet).where(Wallet.user_id == user)
WalletOfUser(user) == {w \in DOMAIN wallets : wallets[w].user_id = user}
\* select(Wallet).where(Wallet.wallet_number == n)
WalletByNumber(n) == {w \in DOMAIN wallets : wallets[w].wallet_number = n}
\* The plausible change: the where clause is lost, every entry is selected.
TxByReferenceAny(ref) == DOMAIN txs

\* select(Transaction).where(Transaction.reference == ref)
TxByReference(ref) == {k \in DOMAIN txs : txs[k].reference = ref}

\* References are drawn from a bounded supply: a request that will draw one
\* starts only if one is left for it and for the transfers in progress.
RefAvailable == nextRef + Cardinality({q \in Procs : pc[q] = "t_txn"}) <= MaxRefs

\* ------------------------------------------------------------ init_deposit
\* The plausible change: the reference is the bare prefix "ps_" (no random
\* token) and the reference column is not declared unique; the primary key
\* is still enforced.
InitDepositCommitFixedRef(p) ==
    /\ pc[p] = "idle"
    /\ RefAvailable
    /\ \E user \in Users, amount \in Amounts :
        LET wallet == CHOOSE w \in WalletOfUser(user) : TRUE
            tx == Transaction(wallet, user, "deposit", amount, "pending", 1)
        IN /\ req' = [req EXCEPT ![p] = [NoReq EXCEPT !.op = "deposit", !.user = user,
                                                      !.amount = amount]]
           /\ loc' = [loc EXCEPT ![p] = [NoLoc EXCEPT !.ref = 1]]
           /\ nextRef' = nextRef + 1
           /\ IF wallet \notin DOMAIN txs
              THEN /\ txs' = Insert(txs, <<tx>>)
                   /\ pc' = [pc EXCEPT ![p] = "d_gateway"]
                   /\ UNCHANGED resp
              ELSE /\ UNCHANGED txs
                   /\ Return(p, "502_paystack_init_failed")
    /\ UNCHANGED <<wallets, apikeys>>

\* The plausible change: the entry is only added to the session and the
\* commit is left for after the gateway call, so the store does not hold it
\* while the call is in progress.
InitDepositCommitDeferred(p) ==
    /\ pc[p] = "idle"
    /\ RefAvailable
    /\ \E user \in Users, amount \in Amounts :
        /\ req' = [req EXCEPT ![p] = [NoReq EXCEPT !.op = "deposit", !.user = user,
                                                   !.amount = amount]]
        /\ loc' = [loc EXCEPT ![p] = [NoLoc EXCEPT !.ref = nextRef]]
        /\ nextRef' = nextRef + 1
        /\ pc' = [pc EXCEPT ![p] = "d_gateway"]
        /\ UNCHANGED resp
    /\ UNCHANGED <<wallets, txs, apikeys>>

\* Lines 58-83: look the caller's wallet up, generate the reference, add the
\* pending entry with id = wallet.id and commit.  Any exception (here: the
\* primary key already taken) is turned into a 502 by the except clause.
InitDepositCommit(p) ==
    /\ pc[p] = "idle"
    /\ RefAvailable
    /\ \E user \in Users, amount \in Amounts :
        LET wallet == CHOOSE w \in WalletOfUser(user) : TRUE
            ref == nextRef
            tx == Transaction(wallet, user, "deposit", amount, "pending", ref)
        IN /\ req' = [req EXCEPT ![p] = [NoReq EXCEPT !.op = "deposit", !.user = user,
                                                      !.amount = amount]]
           /\ loc' = [loc EXCEPT ![p] = [NoLoc EXCEPT !.ref = ref]]
           /\ nextRef' = nextRef + 1
           /\ IF InsertOk(txs, <<tx>>)
              THEN /\ txs' = Insert(txs, <<tx>>)
                   /\ pc' = [pc EXCEPT ![p] = "d_gateway"]
                   /\ UNCHANGED resp
              ELSE /\ UNCHANGED txs
                   /\ Return(p, "502_paystack_init_failed")
    /\ UNCHANGED <<wallets, apikeys>>

\* Lines 85-103: the call to the gateway, after the commit.
InitDepositGateway(p) ==
    /\ pc[p] = "d_gateway"
    /\ \E ok \in BOOLEAN :
        Return(p, IF ok THEN "200_authorization_url" ELSE "502_paystack_init_failed")
    /\ UNCHANGED <<wallets, txs, nextRef, req, loc, apikeys>>

\* ---------------------------------------------------------- paystack_webhook
\* Lines 127-152: signature check, lookup of the entry by reference, and the
\* test of its status, all on the row as read here.  The body names a
\* reference already drawn or the next one (which no entry has); a declared
\* status other than success is treated alike whatever it is.
WebhookLookup(p) ==
    /\ pc[p] = "idle"
    /\ \E body \in Bodies : \E sig \in Signatures(body) :
        /\ body.reference <= nextRef
        /\ req' = [req EXCEPT ![p] = [NoReq EXCEPT !.op = "webhook", !.body = body,
                                                      !.sig = sig]]
        /\ IF sig = NoSignature
           THEN Return(p, "400_missing_signature") /\ UNCHANGED loc
           ELSE IF ~CompareDigest(Hmac(SecretKey, body), sig)
           THEN Return(p, "400_invalid_signature") /\ UNCHANGED loc
           ELSE IF TxByReference(body.reference) = {}
           \* tx.first() is None and None[0] raises TypeError
           THEN Return(p, "500_internal_error") /\ UNCHANGED loc
           ELSE \E k \in TxByReference(body.reference) :
                   IF txs[k].status = "success"
                   THEN Return(p, "200_status_true") /\ UNCHANGED loc
                   ELSE /\ loc' = [loc EXCEPT ![p] = [NoLoc EXCEPT !.tx = k,
                                                       !.tx_status = txs[k].status]]
                        /\ pc' = [pc EXCEPT ![p] = "w_settle"]
                        /\ UNCHANGED resp
    /\ UNCHANGED <<wallets, txs, nextRef, apikeys>>

\* The plausible change: the new status is never committed.
MarkFailedDropped(table, k) == table

\* Lines 170-173: tx.status = TransactionStatus.failed, committed.
MarkFailed(table, k) == [table EXCEPT ![k].status = "failed"]

\* Lines 154-175: the settlement.  The success branch opens a transaction and
\* selects the wallet by tx.wallet_id; the other branch marks the entry failed.
WebhookSettle(p) ==
    /\ pc[p] = "w_settle"
    /\ LET k == loc[p].tx
           tx == txs[k]
       IN IF req[p].body.status = "success"
          THEN LET wid == TxWalletId(tx)
               IN IF wid = NoAttr \/ wid \notin DOMAIN wallets
                  THEN \* the exception leaves the session.begin() block: rollback
                       /\ UNCHANGED <<wallets, txs>>
                       /\ Return(p, "500_internal_error")
                  ELSE /\ wallets' = [wallets EXCEPT ![wid].balance = @ + tx.amount]
                       /\ txs' = [txs EXCEPT ![k].status = "success"]
                       /\ Return(p, "200_status_true")
          ELSE /\ txs' = MarkFailed(txs, k)
               /\ UNCHANGED wallets
               /\ Return(p, "200_status_true")
    /\ UNCHANGED <<nextRef, req, loc, apikeys>>

\* ------------------------------------------------------------------ transfer
\* The plausible change: the comparison is inverted.
InsufficientInverted(balance, amount) == balance > amount

\* sender.balance < req.amount (lines 276 and 285)
Insufficient(balance, amount) == balance < amount

\* Lines 265-277: sender and recipient are looked up and the balance is
\* tested, outside the transaction.
TransferRead(p) ==
    /\ pc[p] = "idle"
    /\ RefAvailable
    /\ \E actor \in Users, amount \in Amounts, number \in WalletIds :
        LET sender == CHOOSE w \in WalletOfUser(actor) : TRUE
        IN /\ req' = [req EXCEPT ![p] = [NoReq EXCEPT !.op = "transfer", !.user = actor,
                                   !.amount = amount, !.wallet_number = number]]
           /\ IF WalletByNumber(number) = {}
              \* recipient.first() is None and None[0] raises TypeError
              THEN Return(p, "500_internal_error") /\ UNCHANGED loc
              ELSE LET recipient == CHOOSE w \in WalletByNumber(number) : TRUE
                   IN IF Insufficient(wallets[sender].balance, amount)
                      THEN Return(p, "400_insufficient_balance") /\ UNCHANGED loc
                      ELSE /\ loc' = [loc EXCEPT ![p] = [NoLoc EXCEPT !.sender = sender,
                                                          !.recipient = recipient]]
                           /\ pc' = [pc EXCEPT ![p] = "t_txn"]
                           /\ UNCHANGED resp
    /\ UNCHANGED <<wallets, txs, nextRef, apikeys>>

\* Lines 279-313: inside session.begin() both wallets are selected again
\* (plain selects), the balance is tested again, and the new balances and the
\* two entries are prepared in the session.  s and r are one object when the
\* recipient is the sender (identity map).
TransferTxn(p) ==
    /\ pc[p] = "t_txn"
    /\ LET s == loc[p].sender
           r == loc[p].recipient
           amount == req[p].amount
       IN IF Insufficient(wallets[s].balance, amount)
          THEN Return(p, "400_insufficient_balance") /\ UNCHANGED <<loc, nextRef>>
          ELSE /\ loc' = [loc EXCEPT ![p].s_balance =
                              IF s = r THEN wallets[s].balance
                              ELSE wallets[s].balance - amount,
                            ![p].r_balance =
                              IF s = r THEN wallets[s].balance
                              ELSE wallets[r].balance + amount,
                            ![p].ref = nextRef]
               /\ nextRef' = nextRef + 1
               /\ pc' = [pc EXCEPT ![p] = "t_commit"]
               /\ UNCHANGED resp
    /\ UNCHANGED <<wallets, txs, req, apikeys>>

\* The two entries of a transfer (lines 292-308): id = wallet id, one reference.
TransferEntries(s, r, actor, amount, ref) ==
    << Transaction(s, actor, "transfer", 0 - amount, "success", ref),
       Transaction(r, actor, "transfer", amount, "success", ref) >>

\* The plausible change: the balances are written outside the transaction of
\* the entries, so they stay when the insert of the entries fails.
TransferCommitPartial(p) ==
    /\ pc[p] = "t_commit"
    /\ LET s == loc[p].sender
           r == loc[p].recipient
           rows == TransferEntries(s, r, req[p].user, req[p].amount, loc[p].ref)
       IN /\ wallets' = [wallets EXCEPT ![s].balance = loc[p].s_balance,
                                        ![r].balance = loc[p].r_balance]
          /\ IF InsertOk(txs, rows)
             THEN txs' = Insert(txs, rows) /\ Return(p, "200_success")
             ELSE UNCHANGED txs /\ Return(p, "500_internal_error")
    /\ UNCHANGED <<nextRef, req, loc, apikeys>>

\* Line 314: the commit flushes the two balances and the two entries in one
\* transaction; a constraint violation raises and everything is rolled back.
TransferCommit(p) ==
    /\ pc[p] = "t_commit"
    /\ LET s == loc[p].sender
           r == loc[p].recipient
           rows == TransferEntries(s, r, req[p].user, req[p].amount, loc[p].ref)
       IN IF InsertOk(txs, rows)
          THEN /\ wallets' = [wallets EXCEPT ![s].balance = loc[p].s_balance,
                                             ![r].balance = loc[p].r_balance]
               /\ txs' = Insert(txs, rows)
               /\ Return(p, "200_success")
          ELSE /\ UNCHANGED <<wallets, txs>>
               /\ Return(p, "500_internal_error")
    /\ UNCHANGED <<nextRef, req, loc, apikeys>>

\* The response is sent and the request's session is closed (get_session).
Respond(p) ==
    /\ pc[p] = "done"
    /\ pc' = [pc EXCEPT ![p] = "idle"]
    /\ req' = [req EXCEPT ![p] = NoReq]
    /\ loc' = [loc EXCEPT ![p] = NoLoc]
    /\ resp' = [resp EXCEPT ![p] = "none"]
    /\ UNCHANGED <<wallets, txs, nextRef, apikeys>>

\* -------------------------------------------------------------- transactions
\* select(Transaction).where(Transaction.id == id)
TxById(id) == {k \in DOMAIN txs : txs[k].id = id}

\* One element of the listing (lines 348-356).
ListItem(t) == [type |-> t.tx_type, amount |-> t.amount, status |-> t.status,
                reference |-> t.reference]

\* Lines 336-357: the entries whose id is the caller's user id are selected,
\* most recent first, and returned.  id is the primary key, so the selection
\* has one row at most and its order is that row alone.
Transactions(p) ==
    /\ pc[p] = "idle"
    /\ \E user \in Users :
        /\ req' = [req EXCEPT ![p] = [NoReq EXCEPT !.op = "transactions", !.user = user]]
        /\ loc' = [loc EXCEPT ![p] = [NoLoc EXCEPT !.out =
                      IF TxById(user) = {} THEN <<>>
                      ELSE <<ListItem(txs[CHOOSE k \in TxById(user) : TRUE])>>]]
        /\ Return(p, "200_transactions")
    /\ UNCHANGED <<wallets, txs, nextRef, apikeys>>

\* ---------------------------------------------------------------- create_key
\* A row of table apikey: its owner, the revoked flag (default False) and
\* whether expires_at has passed (name, permissions, fingerprint and key_hash
\* play no role here).
APIKey(user_id) == [user_id |-> user_id, revoked |-> FALSE, expired |-> FALSE]

\* select(APIKey).where(user_id == user, revoked == False, expires_at > now)
ActiveKeys(user) ==
    {k \in DOMAIN apikeys : /\ apikeys[k].user_id = user
                            /\ ~apikeys[k].revoked
                            /\ ~apikeys[k].expired}

\* Rows are drawn from a bounded supply: a request starts only if a row is
\* left for it and for the requests about to insert theirs.
KeyAvailable == Len(apikeys) + Cardinality({q \in Procs : pc[q] = "k_insert"}) < MaxKeys

\* Lines 53-72: the caller's active keys are selected and counted; with 5 or
\* more the request is refused.
CreateKeyCount(p) ==
    /\ pc[p] = "idle"
    /\ KeyAvailable
    /\ \E user \in Users :
        /\ req' = [req EXCEPT ![p] = [NoReq EXCEPT !.op = "create_key", !.user = user]]
        /\ IF Cardinality(ActiveKeys(user)) >= MaxActiveKeys
           THEN Return(p, "400_max_active_keys")
           ELSE pc' = [pc EXCEPT ![p] = "k_insert"] /\ UNCHANGED resp
    /\ UNCHANGED <<wallets, txs, nextRef, loc, apikeys>>

\* Lines 74-90: the new key is added and committed, in the session that
\* counted; nothing is counted again and no constraint limits the rows.
CreateKeyInsert(p) ==
    /\ pc[p] = "k_insert"
    /\ apikeys' = Append(apikeys, APIKey(req[p].user))
    /\ Return(p, "200_api_key")
    /\ UNCHANGED <<wallets, txs, nextRef, req, loc>>

\* Time passes the expires_at of a key (parse_expiry: 1H, 1D, 1M or 1Y after
\* its creation).
KeyExpires ==
    /\ \E k \in DOMAIN apikeys :
        /\ ~apikeys[k].expired
        /\ apikeys' = [apikeys EXCEPT ![k].expired = TRUE]
    /\ UNCHANGED <<wallets, txs, nextRef, pc, req, loc, resp>>

\* The keys router alone, over the users that signed in.
NextKeys ==
    \/ CreateWallet
    \/ \E p \in Procs : CreateKeyCount(p)
    \/ \E p \in Procs : CreateKeyInsert(p)
    \/ KeyExpires
    \/ \E p \in Procs : Respond(p)

SpecKeys == Init /\ [][NextKeys]_vars

Next ==
    \/ CreateWallet
    \/ \E p \in Procs : InitDepositCommit(p)
    \/ \E p \in Procs : InitDepositGateway(p)
    \/ \E p \in Procs : WebhookLookup(p)
    \/ \E p \in Procs : WebhookSettle(p)
    \/ \E p \in Procs : TransferRead(p)
    \/ \E p \in Procs : TransferTxn(p)
    \/ \E p \in Procs : TransferCommit(p)
    \/ \E p \in Procs : Transactions(p)
    \/ \E p \in Procs : Respond(p)

Spec == Init /\ [][Next]_vars

TypeOK ==
    /\ DOMAIN wallets \subseteq WalletIds
    /\ DOMAIN txs \subseteq WalletIds
    /\ \A k \in DOMAIN txs : txs[k].status \in TransactionStatus
    /\ nextRef \in 1..(MaxRefs + 1)
    /\ \A w \in DOMAIN wallets : wallets[w].user_id \in UserIds
    /\ Len(apikeys) <= MaxKeys

\* ------------------------------------------------------------- properties
Terminal == {"success", "failed"}

\* The sum of the amounts of the entries `ids` of `table`.
RECURSIVE SumAmounts(_, _)
SumAmounts(table, ids) ==
    IF ids = {} THEN 0
    ELSE LET i == CHOOSE x \in ids : TRUE
         IN table[i].amount + SumAmounts(table, ids \ {i})

\* The handler p takes a step.
Moved(p) == pc'[p] # pc[p]

\* The entries that belong to wallet w (init_deposit and transfer store the
\* wallet id in the entry's id) and are in status success.
SuccessEntriesOf(w) == {k \in DOMAIN txs : txs[k].id = w /\ txs[k].status = "success"}

\* No transfer ever returns success: the commit of its two entries, which
\* share one reference, violates the unique index on reference.
NoTransferSucceeds == \A p \in Procs : resp[p] # "200_success"

\* No entry ever reaches success and no balance ever leaves 0.
NothingIsEverCredited ==
    /\ \A w \in DOMAIN wallets : wallets[w].balance = 0
    /\ \A k \in DOMAIN txs : txs[k].status # "success"

\* C2: in every committed state each wallet's balance equals the sum of the
\* amounts of the wallet's ledger entries that are in status success.
C2_BalanceIsSumOfSuccessEntries ==
    \A w \in DOMAIN wallets : wallets[w].balance = SumAmounts(txs, SuccessEntriesOf(w))

\* C2 witness: a success notification with a valid signature was processed
\* for an entry of non-zero amount, and a transfer went through its commit.
C2_Witness ==
    \E p, q \in Procs :
        /\ pc[p] = "done" /\ req[p].op = "webhook" /\ req[p].body.status = "success"
        /\ loc[p].tx \in DOMAIN txs /\ txs[loc[p].tx].amount # 0
        /\ pc[q] = "done" /\ req[q].op = "transfer" /\ loc[q].ref # 0

\* C3: a step of a webhook handler that changes a balance finds the entry
\* not yet in status success in the store, moves it to success, and adds the
\* entry's amount to the owning wallet; so however the handlers of several
\* notifications for one reference interleave, the reference is credited at
\* most once.
C3_CreditedAtMostOnce ==
    [][\A p \in Procs :
         (pc[p] = "w_settle" /\ Moved(p) /\ wallets' # wallets) =>
            LET k == loc[p].tx
            IN /\ txs[k].status # "success"
               /\ txs'[k].status = "success"
               /\ wallets' = [wallets EXCEPT ![txs[k].id].balance = @ + txs[k].amount]
      ]_vars

\* C3 witness: two handlers have processed, concurrently, a success
\* notification with a valid signature for the same deposit of positive
\* amount: both read the entry before either had finished.
C3_Witness ==
    \E p, q \in Procs :
        /\ p # q
        /\ pc[p] = "done" /\ pc[q] = "done"
        /\ req[p].op = "webhook" /\ req[q].op = "webhook"
        /\ req[p].body.status = "success" /\ req[q].body.status = "success"
        /\ loc[p].tx \in DOMAIN txs /\ loc[q].tx = loc[p].tx
        /\ loc[p].tx_status = "pending" /\ loc[q].tx_status = "pending"
        /\ txs[loc[p].tx].amount > 0
        /\ wallets[txs[loc[p].tx].id].balance <= txs[loc[p].tx].amount

\* No other handler is in the middle of a request.
Alone(p) == \A q \in Procs \ {p} : pc[q] \in {"idle", "done"}

\* C4: a notification with a valid signature delivered for a pending deposit,
\* no other delivery being in progress, moves the entry to success and
\* credits the owning wallet with the entry's amount if it declares success,
\* and moves the entry to failed with no change of balance otherwise; the
\* same notification delivered again changes neither status nor balance.
C4_DeliveredTwiceSettlesOnce ==
    [][\A p \in Procs :
         (pc[p] = "w_settle" /\ Moved(p) /\ Alone(p)) =>
            LET k == loc[p].tx
                declared == IF req[p].body.status = "success" THEN "success" ELSE "failed"
            IN IF txs[k].status = "pending"
               THEN /\ txs' = [txs EXCEPT ![k].status = declared]
                    /\ wallets' = [wallets EXCEPT ![txs[k].id].balance =
                                     @ + (IF declared = "success" THEN txs[k].amount ELSE 0)]
               ELSE txs[k].status = declared => UNCHANGED <<wallets, txs>>
      ]_vars

\* The recipient wallet number of the request names a wallet.
RecipientExists(r) == WalletByNumber(r.wallet_number) # {}

\* C6: a transfer of an amount <= 0 (to an existing recipient) ends with
\* InvalidAmount, and no step of it changes a balance or the ledger.
C6_NonPositiveAmountRejected ==
    [][\A p \in Procs :
         (Moved(p) /\ req'[p].op = "transfer" /\ req'[p].amount <= 0
            /\ RecipientExists(req'[p])) =>
            /\ UNCHANGED <<wallets, txs>>
            /\ pc'[p] = "done" => resp'[p] = "400_invalid_amount"
      ]_vars

C8_BadSignatureChangesNothing ==
    [][\A p \in Procs :
         (Moved(p) /\ req'[p].op = "webhook" /\ pc[p] = "idle"
            /\ req'[p].sig # Hmac(SecretKey, req'[p].body)) =>
            /\ pc'[p] = "done"
            /\ resp'[p] \in {"400_missing_signature", "400_invalid_signature"}
            /\ UNCHANGED <<wallets, txs>>
      ]_vars

\* C8 witness: a call signed for another body (the body was tampered with to
\* declare success) that names a pending deposit has been refused, and the
\* deposit is still pending.
C8_Witness ==
    \E p \in Procs :
        /\ pc[p] = "done" /\ req[p].op = "webhook"
        /\ req[p].body.status = "success"
        /\ req[p].sig = Hmac(SecretKey, [req[p].body EXCEPT !.status = "failed"])
        /\ resp[p] = "400_invalid_signature"
        /\ \E k \in DOMAIN txs :
              txs[k].reference = req[p].body.reference /\ txs[k].status = "pending"

\* C9: an entry in status success or failed is never changed again, and a
\* webhook handler that settles against an entry that is in a terminal
\* status in the store changes no balance.
C9_TerminalIsFinal ==
    [][/\ \A k \in DOMAIN txs :
            txs[k].status \in Terminal => (k \in DOMAIN txs' /\ txs'[k] = txs[k])
       /\ \A p \in Procs :
            (pc[p] = "w_settle" /\ Moved(p) /\ txs[loc[p].tx].status \in Terminal)
               => UNCHANGED <<wallets, txs>>
      ]_vars

\* C9 witness: a success notification with a valid signature has been
\* processed for a deposit that it found already failed; the deposit is
\* still failed.
C9_Witness ==
    \E p \in Procs :
        /\ pc[p] = "done" /\ req[p].op = "webhook" /\ req[p].body.status = "success"
        /\ loc[p].tx \in DOMAIN txs
        /\ loc[p].tx_status = "failed"
        /\ txs[loc[p].tx].status = "failed"
        /\ txs[loc[p].tx].amount > 0

\* The wallets of a transfer request: its sender and its recipient.
SenderOf(r) == CHOOSE w \in WalletOfUser(r.user) : TRUE
RecipientOf(r) == CHOOSE w \in WalletByNumber(r.wallet_number) : TRUE

\* C11: a step of a transfer either leaves every balance and the ledger as
\* they are (also when it fails after the debit was applied in its
\* transaction), or it moves the amount from sender to recipient and writes
\* both ledger entries at once.
C11_TransferAllOrNothing ==
    [][\A p \in Procs :
         (Moved(p) /\ req'[p].op = "transfer") =>
            \/ UNCHANGED <<wallets, txs>>
            \/ /\ pc[p] = "t_commit"
               /\ LET s == loc[p].sender
                      r == loc[p].recipient
                      a == req[p].amount
                  IN /\ wallets'[s].balance + wallets'[r].balance
                          = wallets[s].balance + wallets[r].balance
                     /\ s # r => wallets'[s].balance = wallets[s].balance - a
                     /\ \A w \in DOMAIN wallets \ {s, r} : wallets'[w] = wallets[w]
                     /\ Cardinality({k \in DOMAIN txs' \ DOMAIN txs :
                                       txs'[k].reference = loc[p].ref}) = 2
      ]_vars

\* C11 witness: a transfer between two wallets failed at its commit, after
\* a non-zero debit had been applied in its transaction, and both balances
\* are what they were.
C11_Witness ==
    \E p \in Procs :
        /\ pc[p] = "done" /\ req[p].op = "transfer" /\ resp[p] = "500_internal_error"
        /\ loc[p].ref # 0
        /\ loc[p].sender # loc[p].recipient
        /\ req[p].amount # 0
        /\ loc[p].s_balance # wallets[loc[p].sender].balance
        /\ TxByReference(loc[p].ref) = {}

\* The sum of the balances of the wallets `ws`.
RECURSIVE SumBalances(_)
SumBalances(ws) ==
    IF ws = {} THEN 0
    ELSE LET w == CHOOSE x \in ws : TRUE
         IN wallets[w].balance + SumBalances(ws \ {w})

SuccessDeposits == {k \in DOMAIN txs : txs[k].tx_type = "deposit" /\ txs[k].status = "success"}

\* C12: in every committed state the sum of all wallet balances equals the
\* sum of the amounts of the deposit entries in status success.
C12_NoMoneyCreatedOrDestroyed ==
    SumBalances(DOMAIN wallets) = SumAmounts(txs, SuccessDeposits)

\* C12 witness: with two wallets, a deposit of a positive amount was
\* initiated and a success notification for it processed while a transfer
\* of a non-zero amount between the two wallets was in progress.
C12_Witness ==
    \E p, q \in Procs :
        /\ Cardinality(DOMAIN wallets) = 2
        /\ pc[p] = "done" /\ req[p].op = "webhook" /\ req[p].body.status = "success"
        /\ loc[p].tx \in DOMAIN txs /\ txs[loc[p].tx].amount > 0
        /\ txs[loc[p].tx].tx_type = "deposit"
        /\ pc[q] = "t_commit" /\ req[q].amount # 0 /\ loc[q].sender # loc[q].recipient

\* C13: two transfers in opposite directions between two wallets, each of an
\* amount within its sender's balance (each passed both balance tests), both
\* end with success, and the two balances then sum to what they summed to
\* before (no balance was ever credited from outside: 0).
C13_OppositeTransfersBothSucceed ==
    \A p, q \in Procs :
        ( /\ p # q
          /\ pc[p] = "done" /\ pc[q] = "done"
          /\ req[p].op = "transfer" /\ req[q].op = "transfer"
          /\ req[p].amount >= 0 /\ req[q].amount >= 0
          /\ loc[p].ref # 0 /\ loc[q].ref # 0
          /\ loc[p].sender # loc[p].recipient
          /\ loc[p].sender = loc[q].recipient /\ loc[p].recipient = loc[q].sender )
        => /\ resp[p] = "200_success" /\ resp[q] = "200_success"
           /\ wallets[loc[p].sender].balance + wallets[loc[p].recipient].balance = 0

\* C14: a notification with a valid signature that declares success, settled
\* against a deposit that is pending, adds the entry's amount to the balance
\* of the wallet that initiated the deposit, moves the entry to success and
\* changes no other balance and no other entry.
C14_SuccessCreditsTheAmount ==
    [][\A p \in Procs :
         (pc[p] = "w_settle" /\ Moved(p) /\ req[p].body.status = "success"
            /\ txs[loc[p].tx].status = "pending") =>
            LET k == loc[p].tx
            IN /\ wallets' = [wallets EXCEPT ![txs[k].id].balance = @ + txs[k].amount]
               /\ txs' = [txs EXCEPT ![k].status = "success"]
      ]_vars

\* The request carries the signature the secret gives for its body.
ValidSignature(r) == r.sig = Hmac(SecretKey, r.body)

\* C15: a notification with a valid signature that declares a status other
\* than success, settled against a deposit that is pending, moves that entry
\* to failed and changes no balance.
C15_FailureMarksFailed ==
    [][\A p \in Procs :
         (pc[p] = "w_settle" /\ Moved(p) /\ req[p].body.status # "success"
            /\ txs[loc[p].tx].status = "pending") =>
            /\ txs' = [txs EXCEPT ![loc[p].tx].status = "failed"]
            /\ UNCHANGED wallets
      ]_vars

\* C15 witness: a notification declaring failed was processed for a deposit
\* it read as pending; the deposit is failed and its wallet's balance is 0.
C15_Witness ==
    \E p \in Procs :
        /\ pc[p] = "done" /\ req[p].op = "webhook" /\ req[p].body.status = "failed"
        /\ ValidSignature(req[p])
        /\ loc[p].tx \in DOMAIN txs /\ loc[p].tx_status = "pending"
        /\ txs[loc[p].tx].status = "failed"
        /\ wallets[txs[loc[p].tx].id].balance = 0

\* C16: every webhook call with a valid signature is answered with the
\* success acknowledgement.
C16_ValidSignatureIsAcknowledged ==
    \A p \in Procs :
        (pc[p] = "done" /\ req[p].op = "webhook" /\ ValidSignature(req[p]))
            => resp[p] = "200_status_true"

\* C17: no step of a webhook handler whose (validly signed) body names a
\* reference that no ledger entry has creates or changes an entry or changes
\* a balance.
C17_UnknownReferenceChangesNothing ==
    [][\A p \in Procs :
         (Moved(p) /\ req'[p].op = "webhook" /\ ValidSignature(req'[p])
            /\ \A k \in DOMAIN txs : txs[k].reference # req'[p].body.reference) =>
            UNCHANGED <<wallets, txs>>
      ]_vars

\* C17 witness: a validly signed notification for a reference that no entry
\* has was processed to its end, while a pending deposit with another
\* reference exists.
C17_Witness ==
    \E p \in Procs :
        /\ pc[p] = "done" /\ req[p].op = "webhook" /\ ValidSignature(req[p])
        /\ \A k \in DOMAIN txs : txs[k].reference # req[p].body.reference
        /\ \E k \in DOMAIN txs : txs[k].status = "pending"

\* The handler p starts serving an init_deposit request in this step.
StartsDeposit(p) == pc[p] = "idle" /\ req'[p].op = "deposit"

\* The entries this step adds to the ledger.
NewEntries == DOMAIN txs' \ DOMAIN txs

\* C18: init_deposit with a positive amount adds exactly one entry (a pending
\* deposit of the requested amount, under a reference no entry had, owned by
\* the caller's wallet), changes no other entry and no balance; the gateway
\* step after it, whatever its outcome, changes neither ledger nor balances.
C18_DepositAddsOnePendingEntry ==
    [][\A p \in Procs :
         /\ (StartsDeposit(p) /\ req'[p].amount > 0) =>
               /\ UNCHANGED wallets
               /\ \A k \in DOMAIN txs : k \in DOMAIN txs' /\ txs'[k] = txs[k]
               /\ Cardinality(NewEntries) = 1
               /\ \A k \in NewEntries :
                     /\ txs'[k].tx_type = "deposit" /\ txs'[k].status = "pending"
                     /\ txs'[k].amount = req'[p].amount
                     /\ txs'[k].id \in WalletOfUser(req'[p].user)
                     /\ \A j \in DOMAIN txs : txs[j].reference # txs'[k].reference
         /\ (pc[p] = "d_gateway" /\ Moved(p)) => UNCHANGED <<wallets, txs>>
      ]_vars

\* C19: when the gateway call fails the committed entry stays pending and the
\* caller gets the gateway error; and an init_deposit of the same user after
\* such a failure adds a second entry, under another reference than the
\* first, which stays pending.
C19_RetryAddsSecondEntry ==
    [][\A p \in Procs :
         /\ (pc[p] = "d_gateway" /\ Moved(p) /\ resp'[p] # "200_authorization_url") =>
               /\ resp'[p] = "502_paystack_init_failed"
               /\ UNCHANGED <<wallets, txs>>
               /\ \E k \in DOMAIN txs :
                     txs[k].reference = loc[p].ref /\ txs[k].status = "pending"
         /\ \A q \in Procs \ {p} :
               ( /\ StartsDeposit(p)
                 /\ pc[q] = "done" /\ req[q].op = "deposit"
                 /\ resp[q] = "502_paystack_init_failed"
                 /\ req'[p].user = req[q].user
                 /\ \E k \in DOMAIN txs :
                       txs[k].reference = loc[q].ref /\ txs[k].status = "pending" )
               => /\ \E k \in NewEntries : txs'[k].reference # loc[q].ref
                  /\ \E k \in DOMAIN txs' :
                        txs'[k].reference = loc[q].ref /\ txs'[k].status = "pending"
      ]_vars

\* C20: init_deposit with an amount <= 0 is refused before any write (no
\* entry is added, the gateway is not called), so the ledger never holds a
\* deposit of a non-positive amount.
C20_NonPositiveDepositRejected ==
    [][\A p \in Procs :
         (StartsDeposit(p) /\ req'[p].amount <= 0) =>
            /\ UNCHANGED <<wallets, txs>>
            /\ pc'[p] = "done"
            /\ resp'[p] # "200_authorization_url"
      ]_vars

\* C21: a transfer whose wallet number matches no wallet is answered with
\* "recipient not found" (404), and changes no balance and no ledger entry.
C21_UnknownRecipientIsNotFound ==
    [][\A p \in Procs :
         ( /\ pc[p] = "idle" /\ req'[p].op = "transfer"
           /\ \A w \in DOMAIN wallets :
                 wallets[w].wallet_number # req'[p].wallet_number ) =>
            /\ pc'[p] = "done"
            /\ resp'[p] = "404_recipient_not_found"
            /\ UNCHANGED <<wallets, txs>>
      ]_vars

\* C22: a reference identifies one event.  Two distinct ledger entries share
\* a reference only if they are the two entries of one transfer (both of type
\* transfer, opposite amounts, no third entry with that reference); so no two
\* deposits, no two transfers and no deposit and transfer share one, and a
\* deposit's reference selects that deposit's entry alone.
C22_ReferenceIdentifiesOneEvent ==
    \A k, j \in DOMAIN txs :
        (k # j /\ txs[k].reference = txs[j].reference) =>
            /\ txs[k].tx_type = "transfer" /\ txs[j].tx_type = "transfer"
            /\ txs[k].amount = 0 - txs[j].amount
            /\ \A i \in DOMAIN txs :
                  txs[i].reference = txs[k].reference => i \in {k, j}

\* C22 witness: the entries of two deposits are in the ledger, and a handler
\* that committed one of them holds its reference.
C22_Witness ==
    \E k, j \in DOMAIN txs :
        /\ k # j /\ txs[k].tx_type = "deposit" /\ txs[j].tx_type = "deposit"
        /\ \E p \in Procs : req[p].op = "deposit" /\ loc[p].ref = txs[k].reference

C24_CommittedBeforeGatewayCall ==
    \A p \in Procs :
        pc[p] = "d_gateway" =>
            \E k \in DOMAIN txs :
                /\ txs[k].reference = loc[p].ref
                /\ txs[k].tx_type = "deposit"
                /\ txs[k].amount = req[p].amount
                /\ txs[k].user_id = req[p].user

\* C24 witness: while the gateway call of a deposit is in progress, another
\* handler has written that deposit's entry (marked it failed): no lock of
\* the waiting handler stood in its way.
C24_Witness ==
    \E p \in Procs :
        /\ pc[p] = "d_gateway"
        /\ \E k \in DOMAIN txs :
              txs[k].reference = loc[p].ref /\ txs[k].status = "failed"

\* C25: the listing a caller gets holds exactly the ledger entries of the
\* caller's wallet (every one of them, none of another wallet), and serving
\* it changes no table.
C25_ListingIsTheCallersEntries ==
    [][\A p \in Procs :
         (pc[p] = "idle" /\ req'[p].op = "transactions") =>
            /\ {loc'[p].out[i].reference : i \in DOMAIN loc'[p].out}
                  = {txs[k].reference :
                       k \in {j \in DOMAIN txs : txs[j].id \in WalletOfUser(req'[p].user)}}
            /\ UNCHANGED <<wallets, txs, apikeys>>
      ]_vars
====
